---- MODULE Spec2Model ----
(***************************************************************************)
(* A model of go-klogger: the process-wide logger guarded by sync.Once,    *)
(* the fluent KLogger builder (Logf, Add, AddData, AddError, SetLogLevel   *)
(* and the six terminal methods) and the three level parsers.              *)
(*                                                                         *)
(* Three specifications share the module:                                  *)
(*   Spec       sequential calls of the package's API;                     *)
(*   SpecOnce   goroutines racing through InitializeGlobalLogger / Logf,   *)
(*              with sync.Once taken apart into its atomic steps;          *)
(*   SpecParse  the parsers applied to padded and re-cased level strings.  *)
(***************************************************************************)
EXTENDS Integers, Sequences, FiniteSets, TLC

VARIABLES
    onceDone,       \* once (sync.Once): its done flag
    globalLogger,   \* globalLogger: 0 is nil, otherwise an index of loggers
    loggers,        \* the heap of *logrus.Logger instances: [Level, Formatter]
    defaultFields,  \* defaultFields: 0 is the nil map, otherwise an index of maps
    maps,           \* the heap of map[string]interface{} objects
    builders,       \* the *KLogger values handed out by Logf
    made,           \* per builder, how it was made: Logf's arguments, the logger last
                    \* passed to SetLogger before, and whether SetLogLevel was called
    passed,         \* the arguments last passed to SetLogger and SetDefaultFields
    forwarded,      \* the calls the last operation made on a logrus logger
    last,           \* the last operation and its arguments
    panicked,       \* the last operation panicked (a nil dereference) instead of returning
    calls,          \* the number of API calls made so far
    pc,             \* SpecOnce: where each goroutine stands
    req,            \* SpecOnce: the level and formatter each goroutine passes
    onceM,          \* SpecOnce: the holder of once.m (0 when unlocked)
    bodyRuns,       \* SpecOnce: the goroutines that ran the function given to once.Do
    word,           \* SpecParse: the token the input was built from
    input,          \* SpecParse: the string handed to the parser
    result          \* SpecParse: what the parser returned

vars == << onceDone, globalLogger, loggers, defaultFields, maps, builders, made, passed,
           forwarded, last, panicked, calls, pc, req, onceM, bodyRuns, word, input, result >>

apiVars == << onceDone, globalLogger, loggers, defaultFields, maps, builders, made, passed,
              forwarded, last, panicked, calls >>
onceVars == << pc, req, onceM, bodyRuns >>
parseVars == << word, input, result >>

(***************************************************************************)
(* Bounds of the model.                                                    *)
(***************************************************************************)
MaxBuilders == 2
MaxLoggers == 2
MaxMaps == 3
MaxCalls == 4

(***************************************************************************)
(* logrus.Level: the library numbers the levels from the most severe.      *)
(***************************************************************************)
LogrusPanicLevel == 0
LogrusFatalLevel == 1
LogrusErrorLevel == 2
LogrusWarnLevel == 3
LogrusInfoLevel == 4
LogrusDebugLevel == 5
LogrusTraceLevel == 6

LogrusLevels == LogrusPanicLevel .. LogrusTraceLevel

DefaultLogLevel == LogrusDebugLevel

\* The zero value of KLogger.LogLevel, which Logf's struct literal leaves unset.
ZeroLogLevel == 0

Formatters == {"TextFormatter", "JSONFormatter"}

\* logrus.New(): a logger at InfoLevel with a TextFormatter.
LogrusNew == [Level |-> LogrusInfoLevel, Formatter |-> "TextFormatter"]

(***************************************************************************)
(* Field maps.  A Go map is a heap object: maps[i] is its content, a       *)
(* function from keys to values; two references to one map share a cell.   *)
(***************************************************************************)
EmptyMap == [k \in {} |-> ""]

\* for k, v := range data { dst[k] = v }   (ranging over a nil map does nothing)
CopyInto(dst, data) ==
    [k \in DOMAIN dst \cup DOMAIN data |-> IF k \in DOMAIN data THEN data[k] ELSE dst[k]]

\* Mutant: a key that is already there keeps its value.
MapSetKeepsExisting(m, key, value) ==
    [k \in DOMAIN m \cup {key} |-> IF k \in DOMAIN m THEN m[k] ELSE value]

\* m[key] = value
MapSet(m, key, value) ==
    [k \in DOMAIN m \cup {key} |-> IF k = key THEN value ELSE m[k]]

\* The content a map reference denotes; the nil map reads as empty.
Deref(ref) == IF ref = 0 THEN EmptyMap ELSE maps[ref]

(***************************************************************************)
(* fmt.Sprintf restricted to the %s verb.  A format is a sequence of        *)
(* pieces, each either literal text or the verb "%s".                      *)
(***************************************************************************)
RECURSIVE ExtraArgs(_, _)
ExtraArgs(args, used) ==
    IF used >= Len(args)
    THEN ""
    ELSE "string=" \o args[used + 1]
         \o (IF used + 1 < Len(args) THEN ", " ELSE "")
         \o ExtraArgs(args, used + 1)

RECURSIVE SprintfFrom(_, _, _)
SprintfFrom(format, args, used) ==
    IF format = << >>
    THEN IF used < Len(args)
         THEN "%!(EXTRA " \o ExtraArgs(args, used) \o ")"
         ELSE ""
    ELSE IF Head(format) = "%s"
         THEN IF used < Len(args)
              THEN args[used + 1] \o SprintfFrom(Tail(format), args, used + 1)
              ELSE "%!s(MISSING)" \o SprintfFrom(Tail(format), args, used)
         ELSE Head(format) \o SprintfFrom(Tail(format), args, used)

\* Mutant: the arguments are not handed on to Sprintf.
SprintfDropsArgs(format, args) == SprintfFrom(format, << >>, 0)

Sprintf(format, args) == SprintfFrom(format, args, 0)

(***************************************************************************)
(* Errors.  An error value is nil or carries the text Error() returns.     *)
(***************************************************************************)
NilError == [isNil |-> TRUE, text |-> ""]
SomeError == [isNil |-> FALSE, text |-> "boom"]

\* debug.Stack(): the goroutine's stack as a byte slice (here its first bytes).
DebugStack == << 103, 111 >>

\* fmt.Sprintf("%+v", b) of a []byte: the bytes in decimal between brackets.
RECURSIVE JoinBytes(_)
JoinBytes(bytes) ==
    IF bytes = << >>
    THEN ""
    ELSE ToString(Head(bytes))
         \o (IF Len(bytes) > 1 THEN " " ELSE "")
         \o JoinBytes(Tail(bytes))

FormatPlusV(bytes) == "[" \o JoinBytes(bytes) \o "]"

(***************************************************************************)
(* The inputs the callers of the API draw from.                            *)
(***************************************************************************)
Formats == { << "Hello ", "%s" >>, << "Hi" >> }
ArgLists == { << >>, << "World" >> }
Keys == {"foo", "k"}
Values == {"v"}
CallerMaps == { [k \in {"foo"} |-> "bar"], [k \in {"foo", "k"} |-> "w"] }
InitLevels == { LogrusWarnLevel, LogrusTraceLevel }
Errors == { NilError, SomeError }

\* The record of a call: its name, the builder it is called on, its arguments
\* and the builder it returns (0: none, or the call did not return).
NoOp == [op |-> "none", b |-> 0, level |-> 0, ran |-> FALSE, err |-> NilError,
         key |-> "", value |-> "", data |-> EmptyMap, ret |-> 0]

\* One more call from the (single-threaded) caller; the other two
\* specifications' variables stay as they are.
ApiStep ==
    /\ calls < MaxCalls
    /\ calls' = calls + 1
    /\ UNCHANGED << pc, req, onceM, bodyRuns, word, input, result >>

(***************************************************************************)
(* The process-wide logger.                                                *)
(***************************************************************************)

\* Mutant: the body runs on every call, without the guard of once.
InitializeGlobalLoggerNoOnce(level, formatter) ==
    LET created == Append(loggers, LogrusNew)
        id == Len(created)
        levelled == [created EXCEPT ![id].Level = level]
        formatted == [levelled EXCEPT ![id].Formatter = formatter]
    IN  [done |-> TRUE, global |-> id, heap |-> formatted, ran |-> TRUE]

\* once.Do(func() { globalLogger = logrus.New(); SetLevel; SetFormatter }) run
\* to completion by one caller: the state of once, globalLogger and the loggers
\* after the call.
InitializeGlobalLogger(level, formatter) ==
    IF onceDone
    THEN [done |-> TRUE, global |-> globalLogger, heap |-> loggers, ran |-> FALSE]
    ELSE LET created == Append(loggers, LogrusNew)
             id == Len(created)
             levelled == [created EXCEPT ![id].Level = level]
             formatted == [levelled EXCEPT ![id].Formatter = formatter]
         IN  [done |-> TRUE, global |-> id, heap |-> formatted, ran |-> TRUE]

InitializeGlobalLoggerCall(level, formatter) ==
    LET after == InitializeGlobalLogger(level, formatter)
    IN  /\ ApiStep
        /\ Len(after.heap) <= MaxLoggers
        /\ onceDone' = after.done
        /\ globalLogger' = after.global
        /\ loggers' = after.heap
        /\ forwarded' = << >>
        /\ panicked' = FALSE
        /\ last' = [NoOp EXCEPT !.op = "InitializeGlobalLogger", !.level = level,
                                !.ran = after.ran]
        /\ UNCHANGED << defaultFields, maps, builders, made, passed >>

\* SetLogger(logger): the caller passes a logger it holds or a fresh
\* logrus.New(); the loggers callers pass are live instances, never nil.
SetLogger(logger) ==
    /\ ApiStep
    /\ logger \in 1 .. Len(loggers) + 1
    /\ logger <= MaxLoggers
    /\ loggers' = IF logger > Len(loggers) THEN Append(loggers, LogrusNew) ELSE loggers
    /\ globalLogger' = logger
    /\ forwarded' = << >>
    /\ panicked' = FALSE
    /\ last' = [NoOp EXCEPT !.op = "SetLogger", !.b = logger]
    /\ passed' = [passed EXCEPT !.logger = logger]
    /\ UNCHANGED << onceDone, defaultFields, maps, builders, made >>

\* SetDefaultFields(fields): the caller passes nil or a map of its own.
SetDefaultFields(isNil, fields) ==
    /\ ApiStep
    /\ IF isNil
       THEN /\ defaultFields' = 0
            /\ maps' = maps
       ELSE /\ Len(maps) < MaxMaps
            /\ maps' = Append(maps, fields)
            /\ defaultFields' = Len(maps) + 1
    /\ forwarded' = << >>
    /\ panicked' = FALSE
    /\ last' = [NoOp EXCEPT !.op = "SetDefaultFields"]
    /\ passed' = [passed EXCEPT !.fields = IF isNil THEN EmptyMap ELSE fields]
    /\ UNCHANGED << onceDone, globalLogger, loggers, builders, made >>

(***************************************************************************)
(* The builder.                                                            *)
(***************************************************************************)

\* Mutant: the builder's Data is the default-fields map itself, not a copy.
LogfAliasing(format, args) ==
    LET after == InitializeGlobalLogger(DefaultLogLevel, "JSONFormatter")
        fresh == defaultFields = 0
        newLogger == [Logger |-> after.global,
                      Message |-> Sprintf(format, args),
                      LogLevel |-> ZeroLogLevel,
                      Data |-> IF fresh THEN Len(maps) + 1 ELSE defaultFields]
    IN  [init |-> after,
         k |-> newLogger,
         heap |-> IF fresh THEN Append(maps, EmptyMap) ELSE maps]

\* Mutant: the builder starts at the default level instead of the zero value.
LogfAtDefaultLevel(format, args) ==
    LET after == InitializeGlobalLogger(DefaultLogLevel, "JSONFormatter")
        data == Len(maps) + 1
        newLogger == [Logger |-> after.global,
                      Message |-> Sprintf(format, args),
                      LogLevel |-> DefaultLogLevel,
                      Data |-> data]
    IN  [init |-> after,
         k |-> newLogger,
         heap |-> Append(maps, CopyInto(EmptyMap, Deref(defaultFields)))]

\* Logf(format, vars...): the one-time initialisation with the default level
\* and a JSON formatter, then a KLogger on the global logger with a map of its
\* own, into which AddData copies the default fields.
Logf(format, args) ==
    LET after == InitializeGlobalLogger(DefaultLogLevel, "JSONFormatter")
        data == Len(maps) + 1
        newLogger == [Logger |-> after.global,
                      Message |-> Sprintf(format, args),
                      LogLevel |-> ZeroLogLevel,
                      Data |-> data]
    IN  [init |-> after,
         k |-> newLogger,
         heap |-> Append(maps, CopyInto(EmptyMap, Deref(defaultFields)))]

LogfCall(format, args) ==
    LET res == Logf(format, args)
    IN  /\ ApiStep
        /\ Len(builders) < MaxBuilders
        /\ Len(res.heap) <= MaxMaps
        /\ Len(res.init.heap) <= MaxLoggers
        /\ onceDone' = res.init.done
        /\ globalLogger' = res.init.global
        /\ loggers' = res.init.heap
        /\ maps' = res.heap
        /\ builders' = Append(builders, res.k)
        /\ made' = Append(made, [format |-> format, args |-> args,
                                  given |-> passed.logger, levelSet |-> FALSE,
                                  logger |-> globalLogger'])
        /\ forwarded' = << >>
        /\ panicked' = FALSE
        /\ last' = [NoOp EXCEPT !.op = "Logf", !.b = Len(builders) + 1,
                                !.ran = res.init.ran, !.ret = Len(builders) + 1]
        /\ UNCHANGED << defaultFields, passed >>

\* Mutant: only the builder's own level is set.
SetLogLevelBuilderOnly(b, level) ==
    /\ ApiStep
    /\ b \in 1 .. Len(builders)
    /\ builders' = [builders EXCEPT ![b].LogLevel = level]
    /\ forwarded' = << >>
    /\ panicked' = FALSE
    /\ last' = [NoOp EXCEPT !.op = "SetLogLevel", !.b = b, !.level = level, !.ret = b]
    /\ made' = [made EXCEPT ![b].levelSet = TRUE]
    /\ UNCHANGED << onceDone, globalLogger, loggers, defaultFields, maps, passed >>

\* Mutant: the level is set on the process-wide logger of the moment.
SetLogLevelOnGlobal(b, level) ==
    /\ ApiStep
    /\ b \in 1 .. Len(builders)
    /\ builders' = [builders EXCEPT ![b].LogLevel = level]
    /\ loggers' = [loggers EXCEPT ![globalLogger].Level = level]
    /\ forwarded' = << >>
    /\ panicked' = FALSE
    /\ last' = [NoOp EXCEPT !.op = "SetLogLevel", !.b = b, !.level = level, !.ret = b]
    /\ made' = [made EXCEPT ![b].levelSet = TRUE]
    /\ UNCHANGED << onceDone, globalLogger, defaultFields, maps, passed >>

\* l.LogLevel = level; l.Logger.SetLevel(level)
SetLogLevel(b, level) ==
    /\ ApiStep
    /\ b \in 1 .. Len(builders)
    /\ builders' = [builders EXCEPT ![b].LogLevel = level]
    /\ loggers' = [loggers EXCEPT ![builders[b].Logger].Level = level]
    /\ forwarded' = << >>
    /\ panicked' = FALSE
    /\ last' = [NoOp EXCEPT !.op = "SetLogLevel", !.b = b, !.level = level, !.ret = b]
    /\ made' = [made EXCEPT ![b].levelSet = TRUE]
    /\ UNCHANGED << onceDone, globalLogger, defaultFields, maps, passed >>

\* l.Data[key] = value
Add(b, key, value) ==
    /\ ApiStep
    /\ b \in 1 .. Len(builders)
    /\ maps' = [maps EXCEPT ![builders[b].Data] = MapSet(@, key, value)]
    /\ forwarded' = << >>
    /\ panicked' = FALSE
    /\ last' = [NoOp EXCEPT !.op = "Add", !.b = b, !.key = key, !.value = value,
                            !.ret = b]
    /\ UNCHANGED << onceDone, globalLogger, loggers, defaultFields, builders, made, passed >>

\* for k, v := range data { l.Data[k] = v }
AddData(b, data) ==
    /\ ApiStep
    /\ b \in 1 .. Len(builders)
    /\ maps' = [maps EXCEPT ![builders[b].Data] = CopyInto(@, data)]
    /\ forwarded' = << >>
    /\ panicked' = FALSE
    /\ last' = [NoOp EXCEPT !.op = "AddData", !.b = b, !.data = data, !.ret = b]
    /\ UNCHANGED << onceDone, globalLogger, loggers, defaultFields, builders, made, passed >>

\* trace := debug.Stack(); l.Data["error"] = err.Error(); l.Data["stack"] = ...
\* err.Error() on a nil error dereferences nil: the call panics before any write.
AddError(b, err) ==
    /\ ApiStep
    /\ b \in 1 .. Len(builders)
    /\ IF err.isNil
       THEN /\ panicked' = TRUE
            /\ maps' = maps
       ELSE /\ panicked' = FALSE
            /\ maps' = [maps EXCEPT ![builders[b].Data] =
                           MapSet(MapSet(@, "error", err.text),
                                  "stack", FormatPlusV(DebugStack))]
    /\ forwarded' = << >>
    /\ last' = [NoOp EXCEPT !.op = "AddError", !.b = b, !.err = err,
                            !.ret = IF err.isNil THEN 0 ELSE b]
    /\ UNCHANGED << onceDone, globalLogger, loggers, defaultFields, builders, made, passed >>

\* l.Logger.WithFields(l.Data).<Severity>(l.Message): the call the builder makes
\* on its logger, with the content of its field map at the time of the call.
WithFields(l, severity) ==
    [logger |-> l.Logger, emit |-> severity, msg |-> l.Message, fields |-> Deref(l.Data)]

\* What a terminal method leaves alone.  What the caller's program does after a
\* forwarded Fatal or Panic (logrus exits or panics unless ExitFunc is replaced
\* or the panic recovered) is the collaborator's: the model lets the caller go on.
Returns(b, name, severity) ==
    /\ panicked' = FALSE
    /\ last' = [NoOp EXCEPT !.op = name, !.b = b, !.level = severity, !.ret = b]
    /\ UNCHANGED << onceDone, globalLogger, loggers, defaultFields, maps, builders, made,
                    passed >>

Info(b) ==
    /\ ApiStep
    /\ b \in 1 .. Len(builders)
    /\ forwarded' = IF builders[b].LogLevel <= LogrusInfoLevel
                    THEN << WithFields(builders[b], "Info") >> ELSE << >>
    /\ Returns(b, "Info", LogrusInfoLevel)

\* Mutant: Warn without the builder's own check.
WarnUngated(b) ==
    /\ ApiStep
    /\ b \in 1 .. Len(builders)
    /\ forwarded' = << WithFields(builders[b], "Warn") >>
    /\ Returns(b, "Warn", LogrusWarnLevel)

Warn(b) ==
    /\ ApiStep
    /\ b \in 1 .. Len(builders)
    /\ forwarded' = IF builders[b].LogLevel <= LogrusWarnLevel
                    THEN << WithFields(builders[b], "Warn") >> ELSE << >>
    /\ Returns(b, "Warn", LogrusWarnLevel)

Debug(b) ==
    /\ ApiStep
    /\ b \in 1 .. Len(builders)
    /\ forwarded' = IF builders[b].LogLevel <= LogrusDebugLevel
                    THEN << WithFields(builders[b], "Debug") >> ELSE << >>
    /\ Returns(b, "Debug", LogrusDebugLevel)

Error(b) ==
    /\ ApiStep
    /\ b \in 1 .. Len(builders)
    /\ forwarded' = IF builders[b].LogLevel <= LogrusErrorLevel
                    THEN << WithFields(builders[b], "Error") >> ELSE << >>
    /\ Returns(b, "Error", LogrusErrorLevel)

Fatal(b) ==
    /\ ApiStep
    /\ b \in 1 .. Len(builders)
    /\ forwarded' = IF builders[b].LogLevel <= LogrusFatalLevel
                    THEN << WithFields(builders[b], "Fatal") >> ELSE << >>
    /\ Returns(b, "Fatal", LogrusFatalLevel)

Panic(b) ==
    /\ ApiStep
    /\ b \in 1 .. Len(builders)
    /\ forwarded' = IF builders[b].LogLevel <= LogrusPanicLevel
                    THEN << WithFields(builders[b], "Panic") >> ELSE << >>
    /\ Returns(b, "Panic", LogrusPanicLevel)

(***************************************************************************)
(* Spec: sequential calls of the API.                                      *)
(***************************************************************************)
InitApi ==
    /\ onceDone = FALSE
    /\ globalLogger = 0
    /\ loggers = << >>
    /\ defaultFields = 0
    /\ maps = << >>
    /\ builders = << >>
    /\ made = << >>
    /\ passed = [logger |-> 0, fields |-> EmptyMap]
    /\ forwarded = << >>
    /\ last = NoOp
    /\ panicked = FALSE
    /\ calls = 0

InitOnceIdle ==
    /\ pc = << >>
    /\ req = << >>
    /\ onceM = 0
    /\ bodyRuns = << >>

InitParseIdle ==
    /\ word = << >>
    /\ input = << >>
    /\ result = [by |-> "none", level |-> 0]

Init == InitApi /\ InitOnceIdle /\ InitParseIdle

Builders == 1 .. MaxBuilders

Next ==
    \/ \E level \in InitLevels, formatter \in Formatters :
           InitializeGlobalLoggerCall(level, formatter)
    \/ \E logger \in 1 .. MaxLoggers : SetLogger(logger)
    \/ \E fields \in CallerMaps : SetDefaultFields(FALSE, fields)
    \/ SetDefaultFields(TRUE, EmptyMap)
    \/ \E format \in Formats, args \in ArgLists : LogfCall(format, args)
    \/ \E b \in Builders, level \in LogrusLevels : SetLogLevel(b, level)
    \/ \E b \in Builders, key \in Keys, value \in Values : Add(b, key, value)
    \/ \E b \in Builders, data \in CallerMaps : AddData(b, data)
    \/ \E b \in Builders, err \in Errors : AddError(b, err)
    \/ \E b \in Builders : Info(b)
    \/ \E b \in Builders : Warn(b)
    \/ \E b \in Builders : Debug(b)
    \/ \E b \in Builders : Error(b)
    \/ \E b \in Builders : Fatal(b)
    \/ \E b \in Builders : Panic(b)

Spec == Init /\ [][Next]_vars

(***************************************************************************)
(* SpecOnce: goroutines make their first InitializeGlobalLogger or Logf     *)
(* call at the same time.  once.Do is Go's sync.Once:                      *)
(*     if o.done.Load() == 0 { o.doSlow(f) }                               *)
(*     doSlow: o.m.Lock(); defer o.m.Unlock()                              *)
(*             if o.done.Load() == 0 { defer o.done.Store(1); f() }        *)
(* Each atomic load, store, lock and unlock, and each statement of the     *)
(* function given to once.Do, is one step of the goroutine.                *)
(***************************************************************************)
MaxGoroutines == 2

Goroutines == 1 .. MaxGoroutines

\* What a goroutine calls: InitializeGlobalLogger(level, formatter), or Logf,
\* which calls InitializeGlobalLogger(DefaultLogLevel, &logrus.JSONFormatter{}).
Requests ==
    { [call |-> "InitializeGlobalLogger", level |-> LogrusWarnLevel,
       formatter |-> "TextFormatter"],
      [call |-> "InitializeGlobalLogger", level |-> LogrusTraceLevel,
       formatter |-> "JSONFormatter"],
      [call |-> "Logf", level |-> DefaultLogLevel, formatter |-> "JSONFormatter"] }

InitOnce ==
    /\ InitApi
    /\ InitParseIdle
    /\ pc = [g \in Goroutines |-> "Do"]
    /\ req \in [Goroutines -> Requests]
    /\ onceM = 0
    /\ bodyRuns = << >>

OnceFrame ==
    UNCHANGED << defaultFields, maps, builders, made, passed, forwarded, last, panicked,
                 calls, req, word, input, result >>

Goto(g, label) == pc' = [pc EXCEPT ![g] = label]

\* Do: the fast path returns at once when done is set.
OnceDo(g) ==
    /\ pc[g] = "Do"
    /\ Goto(g, IF onceDone THEN "returned" ELSE "Lock")
    /\ UNCHANGED << onceDone, globalLogger, loggers, onceM, bodyRuns >>
    /\ OnceFrame

\* doSlow: o.m.Lock() waits until the mutex is free.
OnceLock(g) ==
    /\ pc[g] = "Lock"
    /\ onceM = 0
    /\ onceM' = g
    /\ Goto(g, "Check")
    /\ UNCHANGED << onceDone, globalLogger, loggers, bodyRuns >>
    /\ OnceFrame

\* Mutant: doSlow runs f without looking at done again under the lock.
OnceCheckNoRecheck(g) ==
    /\ pc[g] = "Check"
    /\ Goto(g, "New")
    /\ UNCHANGED << onceDone, globalLogger, loggers, onceM, bodyRuns >>
    /\ OnceFrame

\* doSlow: under the lock, f runs only if done is still unset.
OnceCheck(g) ==
    /\ pc[g] = "Check"
    /\ Goto(g, IF onceDone THEN "Unlock" ELSE "New")
    /\ UNCHANGED << onceDone, globalLogger, loggers, onceM, bodyRuns >>
    /\ OnceFrame

\* f: globalLogger = logrus.New()
BodyNew(g) ==
    /\ pc[g] = "New"
    /\ Len(loggers) < MaxLoggers
    /\ loggers' = Append(loggers, LogrusNew)
    /\ globalLogger' = Len(loggers) + 1
    /\ bodyRuns' = Append(bodyRuns, g)
    /\ Goto(g, "SetLevel")
    /\ UNCHANGED << onceDone, onceM >>
    /\ OnceFrame

\* f: globalLogger.SetLevel(level)
BodySetLevel(g) ==
    /\ pc[g] = "SetLevel"
    /\ loggers' = [loggers EXCEPT ![globalLogger].Level = req[g].level]
    /\ Goto(g, "SetFormatter")
    /\ UNCHANGED << onceDone, globalLogger, onceM, bodyRuns >>
    /\ OnceFrame

\* f: globalLogger.SetFormatter(formatter)
BodySetFormatter(g) ==
    /\ pc[g] = "SetFormatter"
    /\ loggers' = [loggers EXCEPT ![globalLogger].Formatter = req[g].formatter]
    /\ Goto(g, "Store")
    /\ UNCHANGED << onceDone, globalLogger, onceM, bodyRuns >>
    /\ OnceFrame

\* The deferred o.done.Store(1), once f has returned.
OnceStore(g) ==
    /\ pc[g] = "Store"
    /\ onceDone' = TRUE
    /\ Goto(g, "Unlock")
    /\ UNCHANGED << globalLogger, loggers, onceM, bodyRuns >>
    /\ OnceFrame

\* The deferred o.m.Unlock(); once.Do and with it InitializeGlobalLogger return.
OnceUnlock(g) ==
    /\ pc[g] = "Unlock"
    /\ onceM' = 0
    /\ Goto(g, "returned")
    /\ UNCHANGED << onceDone, globalLogger, loggers, bodyRuns >>
    /\ OnceFrame

NextOnce ==
    \/ \E g \in Goroutines : OnceDo(g)
    \/ \E g \in Goroutines : OnceLock(g)
    \/ \E g \in Goroutines : OnceCheck(g)
    \/ \E g \in Goroutines : BodyNew(g)
    \/ \E g \in Goroutines : BodySetLevel(g)
    \/ \E g \in Goroutines : BodySetFormatter(g)
    \/ \E g \in Goroutines : OnceStore(g)
    \/ \E g \in Goroutines : OnceUnlock(g)

SpecOnce == InitOnce /\ [][NextOnce]_vars

(***************************************************************************)
(* SpecParse: the level parsers.  A Go string is modelled as the sequence  *)
(* of its characters.                                                      *)
(***************************************************************************)
LowerLetters == << "a", "b", "c", "d", "e", "f", "g", "h", "i", "j", "k", "l", "m", "n", "o", "p", "q", "r", "s", "t", "u", "v", "w", "x", "y", "z" >>
UpperLetters == << "A", "B", "C", "D", "E", "F", "G", "H", "I", "J", "K", "L", "M", "N", "O", "P", "Q", "R", "S", "T", "U", "V", "W", "X", "Y", "Z" >>

\* The white space strings.TrimSpace removes (of it, the ASCII characters
\* the inputs use).
WhiteSpace == {" ", "\t", "\n"}

LetterIndex(letters, c) == CHOOSE i \in DOMAIN letters : letters[i] = c
IsUpper(c) == \E i \in DOMAIN UpperLetters : UpperLetters[i] = c
IsLower(c) == \E i \in DOMAIN LowerLetters : LowerLetters[i] = c

\* strings.ToLower
ToLower(s) ==
    [i \in 1 .. Len(s) |->
        IF IsUpper(s[i]) THEN LowerLetters[LetterIndex(UpperLetters, s[i])] ELSE s[i]]

\* strings.TrimSpace: white space is removed at both ends and nowhere else.
RECURSIVE TrimLeft(_)
TrimLeft(s) ==
    IF s # << >> /\ Head(s) \in WhiteSpace THEN TrimLeft(Tail(s)) ELSE s

RECURSIVE TrimRight(_)
TrimRight(s) ==
    IF s # << >> /\ s[Len(s)] \in WhiteSpace
    THEN TrimRight(SubSeq(s, 1, Len(s) - 1))
    ELSE s

TrimSpace(s) == TrimRight(TrimLeft(s))

StrTrace == << "t", "r", "a", "c", "e" >>
StrDebug == << "d", "e", "b", "u", "g" >>
StrInfo == << "i", "n", "f", "o" >>
StrWarn == << "w", "a", "r", "n" >>
StrWarning == << "w", "a", "r", "n", "i", "n", "g" >>
StrError == << "e", "r", "r", "o", "r" >>
StrFatal == << "f", "a", "t", "a", "l" >>
StrPanic == << "p", "a", "n", "i", "c" >>

\* LogLevel, this package's own numbering of the levels (iota from TraceLevel).
TraceLevel == 0
DebugLevel == 1
InfoLevel == 2
WarnLevel == 3
ErrorLevel == 4
FatalLevel == 5
PanicLevel == 6

\* Mutant: the case "warning" is missing from the switch.
ParseLogLevelNoWarning(level) ==
    LET l == ToLower(TrimSpace(level))
    IN  CASE l = StrTrace -> LogrusTraceLevel
          [] l = StrDebug -> LogrusDebugLevel
          [] l = StrInfo -> LogrusInfoLevel
          [] l = StrWarn -> LogrusWarnLevel
          [] l = StrError -> LogrusErrorLevel
          [] l = StrFatal -> LogrusFatalLevel
          [] l = StrPanic -> LogrusPanicLevel
          [] OTHER -> LogrusInfoLevel

ParseLogLevel(level) ==
    LET l == ToLower(TrimSpace(level))
    IN  CASE l = StrTrace -> LogrusTraceLevel
          [] l = StrDebug -> LogrusDebugLevel
          [] l = StrInfo -> LogrusInfoLevel
          [] l = StrWarn \/ l = StrWarning -> LogrusWarnLevel
          [] l = StrError -> LogrusErrorLevel
          [] l = StrFatal -> LogrusFatalLevel
          [] l = StrPanic -> LogrusPanicLevel
          [] OTHER -> LogrusInfoLevel

StringToLogrusLevel(level) ==
    LET l == ToLower(TrimSpace(level))
    IN  CASE l = StrTrace -> LogrusTraceLevel
          [] l = StrDebug -> LogrusDebugLevel
          [] l = StrInfo -> LogrusInfoLevel
          [] l = StrWarn \/ l = StrWarning -> LogrusWarnLevel
          [] l = StrError -> LogrusErrorLevel
          [] l = StrFatal -> LogrusFatalLevel
          [] l = StrPanic -> LogrusPanicLevel
          [] OTHER -> LogrusInfoLevel

\* Mutant: the levels are numbered as the underlying library numbers them.
StringToLogLevelLogrusOrder(level) ==
    LET l == ToLower(TrimSpace(level))
    IN  CASE l = StrTrace -> LogrusTraceLevel
          [] l = StrDebug -> LogrusDebugLevel
          [] l = StrInfo -> LogrusInfoLevel
          [] l = StrWarn \/ l = StrWarning -> LogrusWarnLevel
          [] l = StrError -> LogrusErrorLevel
          [] l = StrFatal -> LogrusFatalLevel
          [] l = StrPanic -> LogrusPanicLevel
          [] OTHER -> LogrusInfoLevel

StringToLogLevel(level) ==
    LET l == ToLower(TrimSpace(level))
    IN  CASE l = StrTrace -> TraceLevel
          [] l = StrDebug -> DebugLevel
          [] l = StrInfo -> InfoLevel
          [] l = StrWarn \/ l = StrWarning -> WarnLevel
          [] l = StrError -> ErrorLevel
          [] l = StrFatal -> FatalLevel
          [] l = StrPanic -> PanicLevel
          [] OTHER -> InfoLevel

\* The tokens the inputs are built from: the eight level names, and strings
\* that are none (the tests' negative cases among them).
LevelNames == { StrTrace, StrDebug, StrInfo, StrWarn, StrWarning, StrError, StrFatal,
                StrPanic }
OtherTokens == { << "u", "n", "k", "n", "o", "w", "n" >>,
                << "1", "2", "3" >>,
                << "@", "#", "&", "*" >>,
                << >>,
                << "i", "n", "f", "o", "1", "2", "3" >>,
                << "d", "e", "b", " ", "u", "g" >> }
Tokens == LevelNames \cup OtherTokens

\* The white space put around a token: at most MaxPad characters in all.
MaxPad == 2

InitParse ==
    /\ InitApi
    /\ InitOnceIdle
    /\ word \in Tokens
    /\ input = word
    /\ result = [by |-> "none", level |-> 0]

ParseFrame ==
    UNCHANGED << onceDone, globalLogger, loggers, defaultFields, maps, builders, made,
                 passed, forwarded, last, panicked, calls, pc, req, onceM, bodyRuns, word >>

NotParsed == [by |-> "none", level |-> 0]

\* The caller puts a white space character before the string.
PadLeft(c) ==
    /\ Len(input) - Len(word) < MaxPad
    /\ input' = << c >> \o input
    /\ result' = NotParsed
    /\ ParseFrame

\* The caller puts a white space character after the string.
PadRight(c) ==
    /\ Len(input) - Len(word) < MaxPad
    /\ input' = input \o << c >>
    /\ result' = NotParsed
    /\ ParseFrame

\* The caller writes a lower-case letter of the string in upper case.
Upcase(i) ==
    /\ i \in 1 .. Len(input)
    /\ IsLower(input[i])
    /\ input' = [input EXCEPT ![i] = UpperLetters[LetterIndex(LowerLetters, @)]]
    /\ result' = NotParsed
    /\ ParseFrame

CallParseLogLevel ==
    /\ result.by # "ParseLogLevel"
    /\ result' = [by |-> "ParseLogLevel", level |-> ParseLogLevel(input)]
    /\ UNCHANGED input
    /\ ParseFrame

CallStringToLogrusLevel ==
    /\ result.by # "StringToLogrusLevel"
    /\ result' = [by |-> "StringToLogrusLevel", level |-> StringToLogrusLevel(input)]
    /\ UNCHANGED input
    /\ ParseFrame

CallStringToLogLevel ==
    /\ result.by # "StringToLogLevel"
    /\ result' = [by |-> "StringToLogLevel", level |-> StringToLogLevel(input)]
    /\ UNCHANGED input
    /\ ParseFrame

NextParse ==
    \/ \E c \in WhiteSpace : PadLeft(c)
    \/ \E c \in WhiteSpace : PadRight(c)
    \/ \E i \in DOMAIN input : Upcase(i)
    \/ CallParseLogLevel
    \/ CallStringToLogrusLevel
    \/ CallStringToLogLevel

SpecParse == InitParse /\ [][NextParse]_vars

(***************************************************************************)
(* Properties of Spec.                                                     *)
(***************************************************************************)
TerminalOps == {"Info", "Warn", "Debug", "Error", "Fatal", "Panic"}

\* The severities from the least to the most severe.
SeverityOrder == << LogrusTraceLevel, LogrusDebugLevel, LogrusInfoLevel, LogrusWarnLevel,
                    LogrusErrorLevel, LogrusFatalLevel, LogrusPanicLevel >>

\* The place of a level in Trace < Debug < Info < Warn < Error < Fatal < Panic.
Rank(level) == CHOOSE i \in DOMAIN SeverityOrder : SeverityOrder[i] = level

\* The builder the last operation acted on, and its field mapping.
LastBuilder == builders[last.b]
LastFields == maps[LastBuilder.Data]

\* C1: level gating.  When a terminal method of severity S is called on a
\* builder whose threshold T was set with SetLogLevel and T is above S in
\* Trace < ... < Panic, the call forwards nothing to the underlying logger.
C1_GatingSuppressesLowerSeverity ==
    ( /\ last.op \in TerminalOps
      /\ made[last.b].levelSet
      /\ Rank(LastBuilder.LogLevel) > Rank(last.level) )
        => forwarded = << >>

\* C2: a terminal method of severity S on a builder of threshold T forwards
\* exactly one call, to the emit primitive of severity S of the builder's
\* logger with the builder's message and current fields, if T <= S in
\* Trace < ... < Panic, and forwards nothing otherwise.
C2_ForwardsIffThresholdAtMostSeverity ==
    last.op \in TerminalOps =>
        forwarded = IF Rank(LastBuilder.LogLevel) <= Rank(last.level)
                    THEN << [logger |-> LastBuilder.Logger, emit |-> last.op,
                             msg |-> LastBuilder.Message, fields |-> LastFields] >>
                    ELSE << >>

\* C3: a builder that Logf constructs after a SetLogger(new) call, and before
\* any later SetLogger, holds the instance new, and the calls its terminal
\* methods forward go to new.
C3_BuildersRouteToTheLoggerSet ==
    \A b \in 1 .. Len(builders) :
        made[b].given # 0 =>
            /\ builders[b].Logger = made[b].given
            /\ ( last.op \in TerminalOps /\ last.b = b /\ forwarded # << >> )
                   => forwarded[1].logger = made[b].given

\* C4: once the one-time initialisation has happened, a call of
\* InitializeGlobalLogger (made directly, or by Logf) changes neither the
\* process-wide logger reference nor any logger's minimum level or formatter,
\* whatever its arguments.
C4_LaterInitializeChangesNothing ==
    [][ ( onceDone /\ calls' = calls + 1 /\ last'.op \in {"InitializeGlobalLogger", "Logf"} )
            => ( globalLogger' = globalLogger /\ loggers' = loggers /\ onceDone' ) ]_vars

\* A later InitializeGlobalLogger call came back without running the body,
\* after a SetLogger call, with a level other than the global logger's.
C4_Witness ==
    /\ last.op = "InitializeGlobalLogger"
    /\ ~last.ran
    /\ passed.logger # 0
    /\ loggers[globalLogger].Level # last.level

\* C6 as stated: SetLogLevel(level) sets the builder's level and the minimum
\* level of the logger that is the process-wide logger at the time of the call.
C6_SetLogLevelSetsTheGlobalLogger ==
    last.op = "SetLogLevel" =>
        /\ LastBuilder.LogLevel = last.level
        /\ loggers[globalLogger].Level = last.level

\* C6 amended: SetLogLevel(level) sets the builder's level and the minimum
\* level of the logger instance the builder holds; the process-wide logger
\* has that level afterwards if it still is that instance.
C6_SetLogLevelSetsTheBuildersLogger ==
    last.op = "SetLogLevel" =>
        /\ LastBuilder.LogLevel = last.level
        /\ loggers[LastBuilder.Logger].Level = last.level
        /\ globalLogger = LastBuilder.Logger => loggers[globalLogger].Level = last.level

\* SetLogLevel was called on a builder whose logger SetLogger has replaced as
\* the process-wide one, and the process-wide logger is at another level.
C6_Witness ==
    /\ last.op = "SetLogLevel"
    /\ globalLogger # LastBuilder.Logger
    /\ loggers[globalLogger].Level # last.level
    /\ loggers[LastBuilder.Logger].Level = last.level

\* C7: the default fields always are the mapping last passed to
\* SetDefaultFields (empty if none was), whatever was done to builders, and a
\* builder that Logf has just returned has exactly that mapping.
C7_DefaultFieldsAreCopied ==
    /\ Deref(defaultFields) = passed.fields
    /\ last.op = "Logf" => LastFields = passed.fields

\* A second builder has just been made from non-empty default fields after
\* the first builder's fields were changed.
C7_Witness ==
    /\ last.op = "Logf"
    /\ last.b > 1
    /\ passed.fields # EmptyMap
    /\ LastFields = passed.fields
    /\ maps[builders[1].Data] # passed.fields

\* C8: AddError returns normally for every error value, nil included, with
\* the fields "error" (the error's text) and "stack" recorded.
C8_AddErrorNeverFails ==
    last.op = "AddError" =>
        /\ ~panicked
        /\ {"error", "stack"} \subseteq DOMAIN LastFields
        /\ ~last.err.isNil => LastFields["error"] = last.err.text

\* The message each call of Logf is to render, case by case.
Expected(m) ==
    CASE m.format = << "Hello ", "%s" >> /\ m.args = << "World" >> -> "Hello World"
      [] m.format = << "Hello ", "%s" >> /\ m.args = << >> -> "Hello %!s(MISSING)"
      [] m.format = << "Hi" >> /\ m.args = << >> -> "Hi"
      [] m.format = << "Hi" >> /\ m.args = << "World" >> -> "Hi%!(EXTRA string=World)"

\* C10: every builder's message is, at all times, the text Logf rendered from
\* its format and arguments, and that is the text a terminal call forwards.
C10_MessageIsRenderedOnceAndKept ==
    /\ \A b \in 1 .. Len(builders) : builders[b].Message = Expected(made[b])
    /\ ( last.op \in TerminalOps /\ forwarded # << >> )
           => forwarded[1].msg = Expected(made[last.b])

\* Logf("Hello %s", "World"), then fields added and the level set, then a
\* terminal call that forwards "Hello World".
C10_Witness ==
    /\ last.op \in TerminalOps
    /\ forwarded # << >>
    /\ forwarded[1].msg = "Hello World"
    /\ made[last.b].levelSet
    /\ LastFields # EmptyMap

\* The mapping after calling Add once for each pair of data, in any order.
RECURSIVE AddEachPair(_, _)
AddEachPair(m, data) ==
    IF DOMAIN data = {} THEN m
    ELSE LET k == CHOOSE x \in DOMAIN data : TRUE
         IN  AddEachPair(MapSet(m, k, data[k]),
                         [x \in DOMAIN data \ {k} |-> data[x]])

\* C11: fields accumulate, the last write winning.  Add(k, v) gives the
\* builder's previous mapping with k mapped to v and every other key as it
\* was; AddData(m) gives the previous mapping with every key of m mapped as
\* in m and every other key as it was, which is what Add called for each pair
\* of m gives; Add and AddData return the builder they were called on; and no
\* call removes a key from any builder's mapping.
C11_FieldsAccumulateLastWriteWins ==
    [][ calls' = calls + 1 =>
          /\ \A b \in 1 .. Len(builders) :
                 DOMAIN maps[builders[b].Data] \subseteq DOMAIN maps'[builders'[b].Data]
          /\ last'.op = "Add" =>
                 LET old == maps[builders[last'.b].Data]
                     new == maps'[builders'[last'.b].Data]
                 IN  /\ DOMAIN new = DOMAIN old \cup {last'.key}
                     /\ new[last'.key] = last'.value
                     /\ \A k \in DOMAIN old \ {last'.key} : new[k] = old[k]
                     /\ last'.ret = last'.b
          /\ last'.op = "AddData" =>
                 LET old == maps[builders[last'.b].Data]
                     new == maps'[builders'[last'.b].Data]
                 IN  /\ DOMAIN new = DOMAIN old \cup DOMAIN last'.data
                     /\ \A k \in DOMAIN last'.data : new[k] = last'.data[k]
                     /\ \A k \in DOMAIN old \ DOMAIN last'.data : new[k] = old[k]
                     /\ new = AddEachPair(old, last'.data)
                     /\ last'.ret = last'.b ]_vars

\* Add("foo", "v") has overwritten the "foo" that came from the default
\* fields, and the builder was returned.
C11_Witness ==
    /\ last.op = "Add"
    /\ last.key = "foo"
    /\ "foo" \in DOMAIN passed.fields
    /\ passed.fields["foo"] # last.value
    /\ LastFields["foo"] = last.value
    /\ last.ret = last.b

\* The minimum-level gate the underlying logger is assumed to apply: it emits
\* a call of the given severity only if the severity is at least as severe as
\* the logger's level (logrus: logger.Level >= level).
IsLevelEnabled(logger, level) == loggers[logger].Level >= level

\* The last terminal call produced output: the builder forwarded it and the
\* logger's gate let it through.
ProducedOutput ==
    /\ forwarded # << >>
    /\ IsLevelEnabled(forwarded[1].logger, last.level)

\* C12: under the logger's own minimum-level gate, a terminal call on a
\* builder whose level was set to L with SetLogLevel, and whose logger still
\* has the level L, produces output exactly when its severity is L (never
\* when L is Trace): a call more severe than L is not forwarded by the
\* builder, a call less severe than L is forwarded and stopped by the gate.
C12_OnlyTheSeverityEqualToTheLevelIsEmitted ==
    ( /\ last.op \in TerminalOps
      /\ made[last.b].levelSet
      /\ loggers[LastBuilder.Logger].Level = LastBuilder.LogLevel )
        => /\ ProducedOutput <=> last.level = LastBuilder.LogLevel
           /\ Rank(last.level) > Rank(LastBuilder.LogLevel) => forwarded = << >>
           /\ Rank(last.level) < Rank(LastBuilder.LogLevel) =>
                  /\ forwarded # << >>
                  /\ ~IsLevelEnabled(forwarded[1].logger, last.level)
           /\ LastBuilder.LogLevel = LogrusTraceLevel => ~ProducedOutput

\* After SetLogLevel(Warn) on the builder, its Warn has produced output.
C12_Witness ==
    /\ last.op = "Warn"
    /\ made[last.b].levelSet
    /\ LastBuilder.LogLevel = LogrusWarnLevel
    /\ loggers[LastBuilder.Logger].Level = LogrusWarnLevel
    /\ ProducedOutput

\* After SetLogLevel(Warn) the more severe Error was dropped by the builder.
C12_WitnessMoreSevere ==
    /\ last.op = "Error"
    /\ made[last.b].levelSet
    /\ LastBuilder.LogLevel = LogrusWarnLevel
    /\ loggers[LastBuilder.Logger].Level = LogrusWarnLevel
    /\ forwarded = << >>

\* After SetLogLevel(Warn) the less severe Info was forwarded, for the gate to stop.
C12_WitnessLessSevere ==
    /\ last.op = "Info"
    /\ made[last.b].levelSet
    /\ LastBuilder.LogLevel = LogrusWarnLevel
    /\ loggers[LastBuilder.Logger].Level = LogrusWarnLevel
    /\ forwarded # << >>
    /\ ~ProducedOutput

\* C13: every terminal call on a builder on which SetLogLevel was never
\* called is forwarded, once, to the builder's logger, whatever that logger's
\* minimum level is.
C13_UnsetBuilderForwardsEverything ==
    ( /\ last.op \in TerminalOps
      /\ ~made[last.b].levelSet )
        => /\ LastBuilder.LogLevel = ZeroLogLevel
           /\ forwarded = << [logger |-> LastBuilder.Logger, emit |-> last.op,
                              msg |-> LastBuilder.Message, fields |-> LastFields] >>

\* The process-wide logger was initialized at Warn; a builder on which
\* SetLogLevel was never called has forwarded a Debug to it.
C13_Witness ==
    /\ last.op = "Debug"
    /\ ~made[last.b].levelSet
    /\ LastBuilder.Logger = globalLogger
    /\ passed.logger = 0
    /\ loggers[globalLogger].Level = LogrusWarnLevel
    /\ forwarded # << >>
    /\ forwarded[1].emit = "Debug"

\* C14: a builder keeps the logger instance that was the process-wide logger
\* when Logf constructed it.  Whatever is called afterwards, SetLogger
\* included, the builder holds that instance, the calls its terminal methods
\* forward go to that instance, and its SetLogLevel sets the level of that
\* instance and of no other logger.
C14_BuilderKeepsItsLoggerInstance ==
    [][ calls' = calls + 1 =>
          /\ \A b \in 1 .. Len(builders) :
                 /\ made'[b].logger = made[b].logger
                 /\ builders'[b].Logger = made[b].logger
          /\ (last'.op \in TerminalOps /\ forwarded' # << >>) =>
                 forwarded'[1].logger = made[last'.b].logger
          /\ last'.op = "SetLogLevel" =>
                 loggers' = [loggers EXCEPT ![made[last'.b].logger].Level = last'.level] ]_vars

\* SetLogger has replaced the process-wide logger after the builder was
\* constructed, and the builder's terminal call went to the old instance.
C14_Witness ==
    /\ last.op \in TerminalOps
    /\ forwarded # << >>
    /\ passed.logger = globalLogger
    /\ made[last.b].logger # globalLogger
    /\ forwarded[1].logger = made[last.b].logger

\* The same with SetLogLevel: the level went to the old instance, the new
\* process-wide logger kept its own.
C14_WitnessSetLogLevel ==
    /\ last.op = "SetLogLevel"
    /\ passed.logger = globalLogger
    /\ made[last.b].logger # globalLogger
    /\ loggers[made[last.b].logger].Level = last.level
    /\ loggers[globalLogger].Level # last.level

(***************************************************************************)
(* Properties of SpecOnce.                                                 *)
(***************************************************************************)

\* C5: under every interleaving of concurrent first calls the body given to
\* once.Do runs at most once, and a caller that has returned finds the body
\* run exactly once and the process-wide logger created with the level and
\* the formatter of the caller that ran it.
C5_ExactlyOneInitialization ==
    /\ Len(bodyRuns) <= 1
    /\ \A g \in Goroutines :
           pc[g] = "returned" =>
               /\ Len(bodyRuns) = 1
               /\ onceDone
               /\ globalLogger # 0
               /\ loggers[globalLogger] = [Level |-> req[bodyRuns[1]].level,
                                           Formatter |-> req[bodyRuns[1]].formatter]

\* Two callers raced: one ran the body and has returned, the other took the
\* slow path with other arguments, found done set under the lock and is
\* about to return.
C5_Witness ==
    \E g, h \in Goroutines :
        /\ pc[g] = "Unlock"
        /\ bodyRuns = << h >>
        /\ g # h
        /\ pc[h] = "returned"
        /\ req[g].level # req[h].level

(***************************************************************************)
(* Properties of SpecParse.                                                *)
(***************************************************************************)

\* The severity a token names, in logrus's numbering; Info for any other token.
ReferenceLogrus(w) ==
    CASE w = StrTrace -> LogrusTraceLevel
      [] w = StrDebug -> LogrusDebugLevel
      [] w = StrInfo -> LogrusInfoLevel
      [] w \in {StrWarn, StrWarning} -> LogrusWarnLevel
      [] w = StrError -> LogrusErrorLevel
      [] w = StrFatal -> LogrusFatalLevel
      [] w = StrPanic -> LogrusPanicLevel
      [] OTHER -> LogrusInfoLevel

\* The same severity in this package's numbering.
ReferenceLogLevel(w) ==
    CASE w = StrTrace -> TraceLevel
      [] w = StrDebug -> DebugLevel
      [] w = StrInfo -> InfoLevel
      [] w \in {StrWarn, StrWarning} -> WarnLevel
      [] w = StrError -> ErrorLevel
      [] w = StrFatal -> FatalLevel
      [] w = StrPanic -> PanicLevel
      [] OTHER -> InfoLevel

\* C9: whatever white space surrounds a token and however its letters are
\* cased, each of the three parsers returns the severity the token names,
\* warn and warning both Warn, and Info for a token that is no level name.
C9_ParsersMatchTheReference ==
    /\ result.by \in {"ParseLogLevel", "StringToLogrusLevel"}
           => result.level = ReferenceLogrus(word)
    /\ result.by = "StringToLogLevel" => result.level = ReferenceLogLevel(word)

\* "warning", padded and partly in upper case, parsed to Warn.
C9_Witness ==
    /\ result.by = "ParseLogLevel"
    /\ word = StrWarning
    /\ Len(input) > Len(word)
    /\ ToLower(input) # input
    /\ result.level = LogrusWarnLevel

\* The library's level of the same name as a level of this package's
\* numbering (TraceLevel = 0 is the least severe, PanicLevel = 6 the most).
LogrusLevelOf(level) == SeverityOrder[level + 1]

\* C15: on every input string the three parsers agree.  ParseLogLevel and
\* StringToLogrusLevel return the same level, and StringToLogLevel returns
\* the level of the same name in this package's numbering, which is 6 minus
\* the library's number.
C15_ParsersAgree ==
    /\ result.by = "ParseLogLevel" => result.level = StringToLogrusLevel(input)
    /\ result.by = "StringToLogrusLevel" => result.level = ParseLogLevel(input)
    /\ result.by = "StringToLogLevel" =>
           /\ result.level \in 0 .. 6
           /\ LogrusLevelOf(result.level) = StringToLogrusLevel(input)
           /\ LogrusLevelOf(result.level) = ParseLogLevel(input)
           /\ result.level = 6 - StringToLogrusLevel(input)

\* StringToLogLevel gave PanicLevel = 6 for a padded "panic", for which the
\* library's parser result is Panic = 0.
C15_Witness ==
    /\ result.by = "StringToLogLevel"
    /\ word = StrPanic
    /\ input # word
    /\ result.level = PanicLevel
    /\ StringToLogrusLevel(input) = LogrusPanicLevel

====
